---- MODULE Spec2Model ----
(***************************************************************************)
(* BackgroundImage (packages/react/src/components/BackgroundImage).        *)
(*                                                                         *)
(* The component binds the `src` prop to the background image of a fabric  *)
(* canvas held in a shared store.  The model has one action per React      *)
(* commit (mount, update render, unmount), one per settlement of an image  *)
(* load, and the store events the component reacts to.                     *)
(*                                                                         *)
(* Numbers are exact rationals <<n, d>> (d > 0, lowest terms); the code    *)
(* computes in IEEE doubles, so equalities proved here hold in the code up *)
(* to rounding.                                                            *)
(***************************************************************************)
EXTENDS Integers, Sequences, FiniteSets, TLC

----------------------------------------------------------------------------
(* Bounds *)

\* number of image loads (FabricImage.fromURL calls) in one behaviour
MaxLoads == 2

----------------------------------------------------------------------------
(* Rational arithmetic *)

Abs(x) == IF x < 0 THEN -x ELSE x

RECURSIVE GCD(_, _)
GCD(a, b) == IF b = 0 THEN a ELSE GCD(b, a % b)

Rat(n, d) ==
  LET g == GCD(Abs(n), Abs(d))
      s == IF d < 0 THEN -1 ELSE 1
  IN  <<(s * n) \div g, (s * d) \div g>>

Num(n) == <<n, 1>>

RAdd(a, b) == Rat(a[1] * b[2] + b[1] * a[2], a[2] * b[2])

RSub(a, b) == Rat(a[1] * b[2] - b[1] * a[2], a[2] * b[2])

RMul(a, b) == Rat(a[1] * b[1], a[2] * b[2])

RDiv(a, b) == Rat(a[1] * b[2], a[2] * b[1])

RLeq(a, b) == a[1] * b[2] <= b[1] * a[2]

RMin(a, b) == IF RLeq(a, b) THEN a ELSE b

RMax(a, b) == IF RLeq(a, b) THEN b ELSE a

----------------------------------------------------------------------------
(* Values *)

\* backgroundImageRef.current = null, canvas.backgroundImage = undefined
NoImage == 0

\* store.manualZoom when it was never set: no number (a fraction has a
\* denominator above 0), so that it compares with every zoom value
Undefined == <<0, 0>>

ImageIds == 1 .. MaxLoads

\* values of the src prop; "" is the falsy src
Srcs == {"", "A", "B"}

\* natural size of the image decoded from a URL
NaturalSize(s) ==
  IF s = "A" THEN [width |-> 400, height |-> 200]
             ELSE [width |-> 300, height |-> 300]

\* canvas sizes <<width, height>>: 4:3, square, very wide, very tall
Sizes == {<<800, 600>>, <<600, 600>>, <<1200, 100>>, <<100, 1200>>}

\* the sizes of the lifecycle specification: not laid out yet, square
LifecycleSizes == {<<0, 0>>, <<600, 600>>}

\* values of store.manualZoom
ManualZooms == {Undefined, Num(2), Num(0)}

\* the manual zooms of the lifecycle specification
LifecycleZooms == {Undefined, Num(2)}

\* values of the rest props (...options): partial maps of image properties
OptionSets == {<<>>, [left |-> -30, top |-> 50, scaleX |-> 2, scaleY |-> 3]}

\* the angle of an image turned upside down
HalfTurn == 180

\* the option sets of the update renders: with a rotation
UpdateOptionSets == OptionSets \cup {[angle |-> HalfTurn], [angle |-> 0]}

\* <<scaleToFit, scaleToCover>>: fit, cover, neither, both
Modes == {<<TRUE, FALSE>>, <<FALSE, TRUE>>, <<FALSE, FALSE>>, <<TRUE, TRUE>>}

\* the modes the ScaleMode type admits
TypedModes == {<<TRUE, FALSE>>, <<FALSE, TRUE>>}

PropsOver(srcs, modes, optionSets) ==
  {[src |-> s, scaleToFit |-> m[1], scaleToCover |-> m[2], options |-> o] :
     s \in srcs, m \in modes, o \in optionSets}

Props == PropsOver({"A", "B"}, Modes, OptionSets)

\* the props of the lifecycle specification
LifecycleProps == PropsOver(Srcs, TypedModes, {[left |-> 100, top |-> 50, scaleX |-> 2]})

\* the object FabricImage.fromURL resolves with
NewImage(s) ==
  [src |-> s, width |-> NaturalSize(s).width, height |-> NaturalSize(s).height,
   left |-> 0, top |-> 0, scaleX |-> 1, scaleY |-> 1, angle |-> 0,
   objectCaching |-> TRUE]

\* heap slot of an image that does not exist (yet)
Blank == NewImage("")

\* fabric's Object.set(props): own keys of props overwrite the image's
SetProps(img, props) ==
  [k \in DOMAIN img |-> IF k \in DOMAIN props THEN props[k] ELSE img[k]]

Identity == <<Num(1), Num(0), Num(0), Num(1), Num(0), Num(0)>>

----------------------------------------------------------------------------
(* State *)

VARIABLES
  phase,              \* "init" (not mounted yet), "mounted", "unmounted"
  props,              \* the props of the last render: src, scaleToFit, scaleToCover, options
  backgroundImageRef, \* backgroundImageRef.current: an image id or NoImage
  handle,             \* ref.current.instance as the parent reads it
  inflight,           \* FabricImage.fromURL promises not settled yet, each with its closure
  nextId,             \* id of the next image object to be created
  images,             \* heap of image objects: id -> properties
  canvas,             \* store.canvas is set
  width,              \* store.width, canvas.width
  height,             \* store.height, canvas.height
  backgroundImage,    \* canvas.backgroundImage: an image id or NoImage
  objects,            \* canvas._objects, the collection canvas.add/remove work on
  viewportTransform,  \* canvas.viewportTransform
  renderPending,      \* a render was requested (requestRenderAll) and has not run yet
  smoothingQuality,   \* canvas.getContext().imageSmoothingQuality
  manualZoom,         \* store.manualZoom
  defaultCentered,    \* store.defaultCentered
  fitZoom,            \* store.fitZoom
  zoom,               \* store.zoom
  loading,            \* store.loading
  domNode,            \* store.domNode is set
  datasetSrc,         \* store.domNode.dataset.src
  onLoadCalls,        \* history: image id -> number of onLoad calls with that image
  attached,           \* history: ids of the images that were assigned as canvas.backgroundImage
  viewportApplied,    \* history: updateViewport has set the viewport transform
  outcome,            \* history: image id -> "none", "pending", "resolved", "rejected"
  superseded,         \* history: ids of the loads in flight when their effect was cleaned up
  onLoadSaw           \* history: ids of the images whose onLoad call found the viewport computed for them

vars == <<phase, props, backgroundImageRef, handle, inflight, nextId, images,
          canvas, width, height, backgroundImage, objects, viewportTransform,
          renderPending, smoothingQuality, manualZoom, defaultCentered, fitZoom,
          zoom, loading, domNode, datasetSrc, onLoadCalls, attached,
          viewportApplied, outcome, superseded, onLoadSaw>>

\* what the handlers read and write, as one record the steps of a handler thread through
Cur ==
  [ref |-> backgroundImageRef, inflight |-> inflight, nextId |-> nextId,
   images |-> images, canvas |-> canvas, width |-> width, height |-> height,
   bg |-> backgroundImage, objects |-> objects, vpt |-> viewportTransform,
   renderPending |-> renderPending, smoothingQuality |-> smoothingQuality,
   manualZoom |-> manualZoom, defaultCentered |-> defaultCentered,
   fitZoom |-> fitZoom, zoom |-> zoom, loading |-> loading, domNode |-> domNode,
   datasetSrc |-> datasetSrc, onLoadCalls |-> onLoadCalls, attached |-> attached,
   viewportApplied |-> viewportApplied, outcome |-> outcome,
   superseded |-> superseded, onLoadSaw |-> onLoadSaw]

Commit(S) ==
  /\ backgroundImageRef' = S.ref
  /\ inflight' = S.inflight
  /\ nextId' = S.nextId
  /\ images' = S.images
  /\ canvas' = S.canvas
  /\ width' = S.width
  /\ height' = S.height
  /\ backgroundImage' = S.bg
  /\ objects' = S.objects
  /\ viewportTransform' = S.vpt
  /\ renderPending' = S.renderPending
  /\ smoothingQuality' = S.smoothingQuality
  /\ manualZoom' = S.manualZoom
  /\ defaultCentered' = S.defaultCentered
  /\ fitZoom' = S.fitZoom
  /\ zoom' = S.zoom
  /\ loading' = S.loading
  /\ domNode' = S.domNode
  /\ datasetSrc' = S.datasetSrc
  /\ onLoadCalls' = S.onLoadCalls
  /\ attached' = S.attached
  /\ viewportApplied' = S.viewportApplied
  /\ outcome' = S.outcome
  /\ superseded' = S.superseded
  /\ onLoadSaw' = S.onLoadSaw

----------------------------------------------------------------------------
(* updateViewport *)

\* fabric util.findScaleToFit(source, destination)
FindScaleToFit(img, W, H) == RMin(Rat(W, img.width), Rat(H, img.height))

\* fabric util.findScaleToCover(source, destination)
FindScaleToCover(img, W, H) == RMax(Rat(W, img.width), Rat(H, img.height))

\* mutant: the cover branch is tested before the fit branch
FitZoomCoverFirst(img, W, H, params) ==
  IF params.scaleToCover THEN FindScaleToCover(img, W, H)
  ELSE IF params.scaleToFit THEN FindScaleToFit(img, W, H)
  ELSE Num(1)

FitZoom(img, W, H, params) ==
  IF params.scaleToFit THEN FindScaleToFit(img, W, H)
  ELSE IF params.scaleToCover THEN FindScaleToCover(img, W, H)
  ELSE Num(1)

\* const { manualZoom = 1 } = store.getState()
ManualZoomOr1(mz) == IF mz = Undefined THEN Num(1) ELSE mz

\* mutant: the manual zoom is left out of the product
CombinedZoomFitOnly(fz, mz) == fz

CombinedZoom(fz, mz) == RMul(fz, mz)

\* mutant: the far edge of the image instead of its centre
BgCenterNoHalf(pos, size, scale, z) ==
  RMul(RAdd(Num(pos), RMul(Num(size), Num(scale))), z)

\* bgCenter.x / bgCenter.y: (pos + size * scale / 2) * combinedZoom
BgCenter(pos, size, scale, z) ==
  RMul(RAdd(Num(pos), RDiv(RMul(Num(size), Num(scale)), Num(2))), z)

\* deltaX / deltaY
Delta(centered, extent, pos, size, scale, z) ==
  IF centered THEN RSub(Rat(extent, 2), BgCenter(pos, size, scale, z))
  ELSE Num(0)

\* mutant: the transform is set and the render requested, but store.setState
\* is left out
UpdateViewportNoStoreWrite(S, params) ==
  IF S.ref = NoImage \/ ~S.canvas THEN S
  ELSE
    LET mz == ManualZoomOr1(S.manualZoom)
        fz == FitZoom(S.images[S.ref], S.width, S.height, params)
        combinedZoom == CombinedZoom(fz, mz)
    IN [S EXCEPT !.vpt = <<combinedZoom, Num(0), Num(0), combinedZoom, Num(0), Num(0)>>,
                 !.renderPending = TRUE,
                 !.viewportApplied = TRUE]

\* mutant: only the canvas is tested; without an image the zoom of mode "none"
\* is written to the store
UpdateViewportUnguarded(S, params) ==
  IF ~S.canvas THEN S
  ELSE
    LET mz == ManualZoomOr1(S.manualZoom)
        fz == IF S.ref = NoImage THEN Num(1)
              ELSE FitZoom(S.images[S.ref], S.width, S.height, params)
        combinedZoom == CombinedZoom(fz, mz)
    IN [S EXCEPT !.vpt = <<combinedZoom, Num(0), Num(0), combinedZoom, Num(0), Num(0)>>,
                 !.renderPending = TRUE,
                 !.fitZoom = fz,
                 !.manualZoom = mz,
                 !.zoom = combinedZoom,
                 !.viewportApplied = TRUE]

UpdateViewport(S, params) ==
  IF S.ref = NoImage \/ ~S.canvas THEN S
  ELSE
    LET mz == ManualZoomOr1(S.manualZoom)
        fz == FitZoom(S.images[S.ref], S.width, S.height, params)
        combinedZoom == CombinedZoom(fz, mz)
        centered == S.defaultCentered /\ S.bg # NoImage
        bgi == IF S.bg = NoImage THEN Blank ELSE S.images[S.bg]
        deltaX == Delta(centered, S.width, bgi.left, bgi.width, bgi.scaleX, combinedZoom)
        deltaY == Delta(centered, S.height, bgi.top, bgi.height, bgi.scaleY, combinedZoom)
    IN [S EXCEPT !.vpt = <<combinedZoom, Num(0), Num(0), combinedZoom, deltaX, deltaY>>,
                 !.renderPending = TRUE,
                 !.fitZoom = fz,
                 !.manualZoom = mz,
                 !.zoom = combinedZoom,
                 !.viewportApplied = TRUE]

----------------------------------------------------------------------------
(* The src effect: load, attach, cleanup *)

\* the closure of one FabricImage.fromURL(src).then(...).finally(...) chain
Load(id, p, dom) ==
  [id |-> id, src |-> p.src, scaleToFit |-> p.scaleToFit,
   scaleToCover |-> p.scaleToCover, options |-> p.options, domNode |-> dom]

\* mutant: the effect body without its if (!src) return, while image ids last
SrcEffectUnguarded(S, p) ==
  IF S.nextId \notin ImageIds THEN S
  ELSE [S EXCEPT !.loading = TRUE,
                 !.inflight = @ \cup {Load(S.nextId, p, S.domNode)},
                 !.outcome[S.nextId] = "pending",
                 !.nextId = @ + 1]

\* effect body: if (!src) return; setLoading(true); FabricImage.fromURL(src, ...)
SrcEffect(S, p) ==
  IF p.src = "" THEN S
  ELSE [S EXCEPT !.loading = TRUE,
                 !.inflight = @ \cup {Load(S.nextId, p, S.domNode)},
                 !.outcome[S.nextId] = "pending",
                 !.nextId = @ + 1]

\* fabric Collection.remove(object): takes the object out of canvas._objects and
\* requests a render when it was there; canvas.backgroundImage is not in _objects
CanvasRemove(S, o) ==
  IF o \in S.objects
  THEN [S EXCEPT !.objects = @ \ {o}, !.renderPending = TRUE]
  ELSE S

\* the cleanup the effect returns; canvas.renderAll() runs the render at once
SrcCleanup(S) ==
  LET S1 == IF S.ref # NoImage
            THEN [(IF S.canvas THEN CanvasRemove(S, S.ref) ELSE S) EXCEPT !.ref = NoImage]
            ELSE S
  IN IF S1.canvas THEN [S1 EXCEPT !.renderPending = FALSE] ELSE S1

\* history: the effect that started the loads in flight is over
Supersede(S) == [S EXCEPT !.superseded = @ \cup {l.id : l \in S.inflight}]

\* what onLoad finds when it is called with l's image: the store and the
\* canvas hold the viewport updateViewport computes for that image
ViewportReady(S, l) ==
  /\ S.ref = l.id /\ S.viewportApplied
  /\ S.fitZoom = FitZoom(S.images[l.id], S.width, S.height, l)
  /\ S.zoom = CombinedZoom(S.fitZoom, ManualZoomOr1(S.manualZoom))
  /\ S.vpt[1] = S.zoom

\* onLoad?.(imageSource); if (domNode) domNode.dataset.src = src
NotifyLoaded(S, l) ==
  [S EXCEPT !.onLoadCalls[l.id] = @ + 1,
            !.onLoadSaw = IF ViewportReady(S, l) THEN @ \cup {l.id} ELSE @,
            !.datasetSrc = IF l.domNode THEN l.src ELSE @]

\* mutant: the attach sets the local reference and leaves canvas.backgroundImage
AttachRefOnly(S, l) ==
  [S EXCEPT !.images = [i \in ImageIds |->
                          IF i = l.id
                          THEN [SetProps(NewImage(l.src), l.options)
                                  EXCEPT !.objectCaching = FALSE]
                          ELSE Blank],
            !.smoothingQuality = "high",
            !.ref = l.id,
            !.attached = @ \cup {l.id}]

\* canvas.backgroundImage = imageSource; backgroundImageRef.current = imageSource.
\* No reference to an image attached earlier is left: its heap slot is reclaimed
Attach(S, l) ==
  [S EXCEPT !.images = [i \in ImageIds |->
                          IF i = l.id
                          THEN [SetProps(NewImage(l.src), l.options)
                                  EXCEPT !.objectCaching = FALSE]
                          ELSE Blank],
            !.smoothingQuality = "high",
            !.bg = l.id,
            !.ref = l.id,
            !.attached = @ \cup {l.id}]

\* mutant: only the canvas and its width are tested before the attach
ThenWidthOnly(S, l) ==
  IF S.canvas /\ S.width # 0
  THEN NotifyLoaded(UpdateViewport(Attach(S, l), l), l)
  ELSE S

\* mutant: onLoad is called before updateViewport
ThenNotifyFirst(S, l) ==
  IF S.canvas /\ S.width # 0 /\ S.height # 0
  THEN UpdateViewport(NotifyLoaded(Attach(S, l), l), l)
  ELSE S

\* mutant: onLoad is called whether or not the image was attached
ThenAlwaysNotifying(S, l) ==
  IF S.canvas /\ S.width # 0 /\ S.height # 0
  THEN NotifyLoaded(UpdateViewport(Attach(S, l), l), l)
  ELSE NotifyLoaded(S, l)

\* the .then callback; canvas.viewportTransform is always set, so the early
\* return before onLoad is never taken
Then(S, l) ==
  IF S.canvas /\ S.width # 0 /\ S.height # 0
  THEN NotifyLoaded(UpdateViewport(Attach(S, l), l), l)
  ELSE S

\* mutant: setLoading(false) is left out
FinallyOmitted(S, l) == S

\* the .finally callback: setLoading(false)
Finally(S, l) == [S EXCEPT !.loading = FALSE]

\* the direction the sides of an image run in from its (left, top) corner, at
\* an angle of 0 or 180 degrees
Dir(angle) == IF angle = HalfTurn THEN -1 ELSE 1

\* twice the centre of an image, from its left/top origin
ImageCentre2(img) ==
  <<2 * img.left + Dir(img.angle) * img.width * img.scaleX,
    2 * img.top + Dir(img.angle) * img.height * img.scaleY>>

\* fabric's Object.rotate(angle), with the default centeredRotation and the
\* left/top origin: the angle is set and the image is moved so that its centre
\* stays where it was
Rotate(img, angle) ==
  LET turned == [img EXCEPT !.angle = angle]
      shift(d) == ((Dir(img.angle) - Dir(angle)) \div 2) * d
  IN [turned EXCEPT !.left = @ + shift(img.width * img.scaleX),
                    !.top = @ + shift(img.height * img.scaleY)]

\* mutant: angle goes through the generic set like every other key
DidUpdateSetOnly(S, options) ==
  IF S.ref # NoImage
  THEN [S EXCEPT !.images[S.ref] = SetProps(@, options),
                 !.renderPending = IF S.canvas THEN TRUE ELSE @]
  ELSE S

\* useDidUpdate callback: every option is applied again to the attached image,
\* angle by rotate and the other keys by set (the option sets with an angle
\* have no other key, so the order of the entries does not matter)
DidUpdate(S, options) ==
  IF S.ref # NoImage
  THEN LET others == [k \in DOMAIN options \ {"angle"} |-> options[k]]
           img == SetProps(S.images[S.ref], others)
       IN [S EXCEPT !.images[S.ref] = IF "angle" \in DOMAIN options
                                      THEN Rotate(img, options.angle)
                                      ELSE img,
                    !.renderPending = IF S.canvas THEN TRUE ELSE @]
  ELSE S

\* hooks/useDidUpdate: an effect that skips the first render; its dependency
\* options is a new object on every render, so it runs on every update render
UseDidUpdate(S, options, firstRender) ==
  IF firstRender THEN S ELSE DidUpdate(S, options)

\* useImperativeHandle(ref, () => ({ instance: backgroundImageRef.current })):
\* a layout effect, it runs in the commit before the passive effects and cleanups
ImperativeHandle(ref) == ref

----------------------------------------------------------------------------
(* Actions *)

InitOver(sizes, zooms, centerings) ==
  /\ phase = "init"
  /\ props = [src |-> "", scaleToFit |-> FALSE, scaleToCover |-> FALSE, options |-> <<>>]
  /\ backgroundImageRef = NoImage
  /\ handle = NoImage
  /\ inflight = {}
  /\ nextId = 1
  /\ images = [i \in ImageIds |-> Blank]
  /\ canvas \in BOOLEAN
  /\ \E s \in sizes : width = s[1] /\ height = s[2]
  /\ backgroundImage = NoImage
  /\ objects = {}
  /\ viewportTransform = Identity
  /\ renderPending = FALSE
  /\ smoothingQuality = "low"
  /\ manualZoom \in zooms
  /\ defaultCentered \in centerings
  /\ fitZoom = Num(1)
  /\ zoom = ManualZoomOr1(manualZoom)
  /\ loading = FALSE
  /\ domNode = canvas
  /\ datasetSrc = ""
  /\ onLoadCalls = [i \in ImageIds |-> 0]
  /\ attached = {}
  /\ viewportApplied = FALSE
  /\ outcome = [i \in ImageIds |-> "none"]
  /\ superseded = {}
  /\ onLoadSaw = {}

\* first render: the handle is set, then both effects run; useDidUpdate skips it
Mount(p) ==
  /\ phase = "init"
  /\ LET S == UseDidUpdate(SrcEffect(UpdateViewport(Cur, p), p), p.options, TRUE)
     IN Commit(S)
  /\ phase' = "mounted"
  /\ props' = p
  /\ handle' = ImperativeHandle(backgroundImageRef)

\* mutant: the new src's effect body runs before the old effect's cleanup
RenderEffectFirst(p) ==
  /\ phase = "mounted"
  /\ LET srcChanged == p.src # props.src
         modeChanged == p.scaleToFit # props.scaleToFit
                          \/ p.scaleToCover # props.scaleToCover
         S1 == IF srcChanged THEN SrcEffect(Cur, p) ELSE Cur
         S2 == IF srcChanged /\ props.src # "" THEN SrcCleanup(Supersede(S1)) ELSE S1
         S3 == IF modeChanged THEN UpdateViewport(S2, p) ELSE S2
         S4 == UseDidUpdate(S3, p.options, FALSE)
     IN /\ (srcChanged /\ p.src # "") => nextId <= MaxLoads
        /\ Commit(S4)
  /\ phase' = phase
  /\ props' = p
  /\ handle' = ImperativeHandle(backgroundImageRef)

\* an update render with props p (p = props: the parent rendered again)
Render(p) ==
  /\ phase = "mounted"
  /\ LET srcChanged == p.src # props.src
         modeChanged == p.scaleToFit # props.scaleToFit
                          \/ p.scaleToCover # props.scaleToCover
         S1 == IF srcChanged /\ props.src # "" THEN SrcCleanup(Supersede(Cur)) ELSE Cur
         S2 == IF modeChanged THEN UpdateViewport(S1, p) ELSE S1
         S3 == IF srcChanged THEN SrcEffect(S2, p) ELSE S2
         S4 == UseDidUpdate(S3, p.options, FALSE)
     IN /\ (srcChanged /\ p.src # "") => nextId <= MaxLoads
        /\ Commit(S4)
  /\ phase' = phase
  /\ props' = p
  /\ handle' = ImperativeHandle(backgroundImageRef)

\* the store's width/height change; a mounted component renders again
Resize(w, h) ==
  /\ phase # "init"
  /\ <<w, h>> # <<width, height>>
  /\ LET S0 == [Cur EXCEPT !.width = w, !.height = h]
         S == IF phase = "mounted"
              THEN UseDidUpdate(UpdateViewport(S0, props), props.options, FALSE)
              ELSE S0
     IN Commit(S)
  /\ handle' = IF phase = "mounted" THEN ImperativeHandle(backgroundImageRef) ELSE handle
  /\ UNCHANGED <<phase, props>>

\* a load settles: .then on success, .finally always; a settled promise's
\* callbacks run back to back, whether the component is still mounted or not
Settle(l, ok) ==
  /\ l \in inflight
  /\ LET S0 == [Cur EXCEPT !.inflight = @ \ {l},
                            !.outcome[l.id] = IF ok THEN "resolved" ELSE "rejected"]
         S == Finally(IF ok THEN Then(S0, l) ELSE S0, l)
     IN Commit(S)
  /\ UNCHANGED <<phase, props, handle>>

\* unmount: the last src effect's cleanup runs, React detaches the ref
Unmount ==
  /\ phase = "mounted"
  /\ LET S == IF props.src # "" THEN SrcCleanup(Supersede(Cur)) ELSE Cur
     IN Commit(S)
  /\ phase' = "unmounted"
  /\ handle' = NoImage
  /\ UNCHANGED props

\* the canvas host puts its canvas and its DOM node into the store
CanvasCreated ==
  /\ ~canvas
  /\ LET S == [Cur EXCEPT !.canvas = TRUE, !.domNode = TRUE]
     IN Commit(S)
  /\ UNCHANGED <<phase, props, handle>>

\* the animation frame of a requested render
RenderFrame ==
  /\ renderPending
  /\ LET S == [Cur EXCEPT !.renderPending = FALSE]
     IN Commit(S)
  /\ UNCHANGED <<phase, props, handle>>

\* srcChanges: the parent changes src after the mount
NextOver(propSet, sizes, srcChanges) ==
  \/ \E p \in propSet : Mount(p)
  \/ \E p \in propSet :
       /\ srcChanges \/ p.src = props.src
       /\ Render(p)
  \/ \E s \in sizes : Resize(s[1], s[2])
  \/ \E l \in inflight, ok \in BOOLEAN : Settle(l, ok)
  \/ Unmount
  \/ CanvasCreated
  \/ RenderFrame

\* the lifecycle: every interleaving of renders, src changes, loads and unmount,
\* on a store that centres the image
Init == InitOver(LifecycleSizes, LifecycleZooms, {TRUE})

Next == NextOver(LifecycleProps, LifecycleSizes, TRUE)

Spec == Init /\ [][Next]_vars

\* the viewport: every mode, size, manual zoom and option set, for one src
ViewportInit == InitOver(Sizes, ManualZooms, BOOLEAN)

ViewportNext == NextOver(Props, Sizes, FALSE)

ViewportSpec == ViewportInit /\ [][ViewportNext]_vars

\* the canvas without a size: sizes with one side zero, scaleToFit throughout
DropSizes == {<<0, 600>>, <<800, 0>>, <<600, 600>>}

DropProps == PropsOver({"A", "B"}, {<<TRUE, FALSE>>}, {<<>>})

DropInit == InitOver(DropSizes, {Undefined}, {TRUE})

DropNext == NextOver(DropProps, DropSizes, TRUE)

DropSpec == DropInit /\ [][DropNext]_vars

\* the update renders: every option set, with and without a rotation, for one src
UpdateProps == PropsOver({"A"}, TypedModes, UpdateOptionSets)

UpdateInit == InitOver(LifecycleSizes, {Undefined}, {TRUE})

UpdateNext == NextOver(UpdateProps, LifecycleSizes, FALSE)

UpdateSpec == UpdateInit /\ [][UpdateNext]_vars

----------------------------------------------------------------------------
(* Steps, as the claims speak of them *)

\* the load of the current src: the last one started
Latest == nextId - 1

\* load l settles in this step and its image is attached
AttachStep(l) == l \in inflight /\ l \notin inflight' /\ l.id \in attached'

\* load l settles in this step
SettleStep(l) == l \in inflight /\ l \notin inflight'

ModeChanged ==
  \/ props'.scaleToFit # props.scaleToFit
  \/ props'.scaleToCover # props.scaleToCover

SizeChanged == <<width', height'>> # <<width, height>>

\* a commit of the mounted component whose dimension effect runs, and whose src
\* effect does not
DimensionEffectStep ==
  /\ phase = "mounted" /\ phase' = "mounted"
  /\ props'.src = props.src
  /\ ModeChanged \/ SizeChanged

\* the parameters updateViewport was called with in a step that attached l's
\* image or ran the dimension effect
ReachedViewport(l) == AttachStep(l) /\ backgroundImageRef' = l.id

IsMin(z, a, b) == RLeq(z, a) /\ RLeq(z, b) /\ z \in {a, b}

IsMax(z, a, b) == RLeq(a, z) /\ RLeq(b, z) /\ z \in {a, b}

\* fitZoom as section 4.1 of the specification words it
FitZoomAsSpecified(z, img, W, H, fit, cover) ==
  LET a == Rat(W, img.width)
      b == Rat(H, img.height)
  IN IF fit THEN IsMin(z, a, b)
     ELSE IF cover THEN IsMax(z, a, b)
     ELSE z = Num(1)

----------------------------------------------------------------------------
(* Claims *)

\* C1: if src changes while a load is in flight, then once every load has
\* settled the canvas background image and the local reference are the image
\* of the load for the current src, or no image; never the image of the load
\* that was in flight when src changed.
C1_LatestLoadWins ==
  (phase = "mounted" /\ props.src # "" /\ inflight = {} /\ superseded # {})
    => /\ backgroundImage \in {Latest, NoImage}
       /\ backgroundImageRef = backgroundImage
       /\ outcome[Latest] = "rejected" => backgroundImage = NoImage

\* C2: whenever an image is attached, the image attached before it has been
\* detached: it is not the canvas background image any more and the local
\* reference is null.
C2_OldDetachedBeforeNewAttached ==
  [][attached' # attached
       => backgroundImage = NoImage /\ backgroundImageRef = NoImage]_vars

\* C3: an unmount with an image attached removes the image from the canvas and
\* clears the local reference, and after the unmount the component writes
\* nothing to the store and attaches no image.
C3_UnmountDetachesAndSilences ==
  [][/\ (phase = "mounted" /\ phase' = "unmounted" /\ backgroundImage # NoImage)
          => backgroundImage' = NoImage /\ backgroundImageRef' = NoImage
     /\ phase = "unmounted"
          => UNCHANGED <<loading, fitZoom, manualZoom, zoom, backgroundImage,
                         backgroundImageRef>>]_vars

\* C4: onLoad is called exactly once with every image that was attached, and
\* never with an image that was not (the load failed, or the canvas was missing
\* or had no size).
C4_OnLoadOncePerAttach ==
  \A i \in ImageIds : onLoadCalls[i] = IF i \in attached THEN 1 ELSE 0

C4_Witness ==
  \E i, j \in ImageIds :
    /\ i \in attached /\ onLoadCalls[i] = 1
    /\ outcome[j] = "rejected" /\ onLoadCalls[j] = 0

\* C5: the fitZoom updateViewport stores is min(W/w, H/h) when called with
\* scaleToFit, max(W/w, H/h) when called with scaleToCover and not scaleToFit,
\* and 1 otherwise; a 800x600 canvas and a 400x200 image give 2 and 3.
C5_FitZoom ==
  [][/\ \A l \in inflight :
          ReachedViewport(l)
            => FitZoomAsSpecified(fitZoom', images'[l.id], width', height',
                                  l.scaleToFit, l.scaleToCover)
     /\ (DimensionEffectStep /\ backgroundImageRef # NoImage /\ canvas)
          => /\ FitZoomAsSpecified(fitZoom', images'[backgroundImageRef'], width',
                                   height', props'.scaleToFit, props'.scaleToCover)
             /\ (/\ <<width', height'>> = <<800, 600>>
                 /\ images'[backgroundImageRef'].width = 400
                 /\ images'[backgroundImageRef'].height = 200)
                  => /\ props'.scaleToFit => fitZoom' = Num(2)
                     /\ (props'.scaleToCover /\ ~props'.scaleToFit) => fitZoom' = Num(3)]_vars

C5_Witness ==
  /\ viewportApplied /\ backgroundImageRef # NoImage
  /\ <<width, height>> = <<800, 600>>
  /\ images[backgroundImageRef].width = 400
  /\ props.scaleToCover /\ ~props.scaleToFit
  /\ fitZoom = Num(3)

\* C6: once updateViewport has written the store, the stored zoom is the stored
\* fitZoom times the stored manualZoom and the scale entries of the viewport
\* transform are that zoom, whatever the component does afterwards.
C6_ZoomIsProduct ==
  viewportApplied
    => /\ manualZoom # Undefined
       /\ zoom = RMul(fitZoom, manualZoom)
       /\ viewportTransform[1] = zoom /\ viewportTransform[4] = zoom
       /\ viewportTransform[2] = Num(0) /\ viewportTransform[3] = Num(0)

C6_Witness ==
  /\ viewportApplied
  /\ manualZoom = Num(2) /\ fitZoom = Rat(3, 2) /\ zoom = Num(3)
  /\ superseded # {}

\* the centre of image img under the transform vpt, in canvas pixels
CentreOnCanvas(img, vpt) ==
  [x |-> RAdd(RMul(vpt[1], RAdd(Num(img.left),
                                RDiv(Num(img.width * img.scaleX), Num(2)))), vpt[5]),
   y |-> RAdd(RMul(vpt[4], RAdd(Num(img.top),
                                RDiv(Num(img.height * img.scaleY), Num(2)))), vpt[6])]

\* what updateViewport leaves when it has just set the transform vpt
CentredIn(centered, bg, imgs, vpt, W, H) ==
  IF centered
  THEN bg # NoImage
         => CentreOnCanvas(imgs[bg], vpt) = [x |-> Rat(W, 2), y |-> Rat(H, 2)]
  ELSE vpt[5] = Num(0) /\ vpt[6] = Num(0)

Centred ==
  CentredIn(defaultCentered, backgroundImage, images, viewportTransform, width, height)

CentredAfter ==
  CentredIn(defaultCentered', backgroundImage', images', viewportTransform',
            width', height')

\* C7: after updateViewport has set its final transform, with defaultCentered
\* the centre of the background image lies on the centre of the canvas, and
\* without it the translation is (0, 0).
C7_Centred ==
  [][/\ \A l \in inflight : ReachedViewport(l) => CentredAfter
     /\ (/\ DimensionEffectStep /\ backgroundImageRef # NoImage /\ canvas
         /\ images' = images)
          => CentredAfter]_vars

C7_Witness ==
  /\ viewportApplied /\ defaultCentered /\ backgroundImage # NoImage
  /\ images[backgroundImage].left = -30
  /\ images[backgroundImage].scaleY = 3
  /\ <<width, height>> = <<1200, 100>>
  /\ viewportTransform[5] # Num(0)
  /\ Centred

\* C8: a load that settles clears the loading flag, resolved or rejected; a
\* rejected load attaches nothing, calls no onLoad and leaves the canvas
\* background, the local reference, the viewport transform and the store's zoom
\* fields as they were.
C8_SettleClearsLoading ==
  [][\A l \in inflight :
       SettleStep(l)
         => /\ loading' = FALSE
            /\ outcome'[l.id] = "rejected"
                 => UNCHANGED <<backgroundImage, backgroundImageRef, attached,
                                onLoadCalls, viewportTransform, fitZoom,
                                manualZoom, zoom>>]_vars

C8_Witness ==
  \E i, j \in ImageIds :
    /\ outcome[i] = "rejected" /\ outcome[j] = "pending"
    /\ loading = FALSE

\* C9: the handle's instance is the image the local reference holds, or null
\* when it holds none, whenever the parent reads it.
C9_HandleIsCurrent ==
  phase = "mounted" => handle = backgroundImageRef

\* C10: updateViewport called with no image attached or with no canvas in the
\* store changes neither the viewport transform, nor the store's fitZoom,
\* manualZoom and zoom, nor the pending render request.
C10_NoImageNoOp ==
  [][/\ (phase = "init" /\ phase' = "mounted")
          => UNCHANGED <<viewportTransform, fitZoom, manualZoom, zoom, renderPending>>
     /\ (DimensionEffectStep /\ (backgroundImageRef = NoImage \/ ~canvas))
          => UNCHANGED <<viewportTransform, fitZoom, manualZoom, zoom, renderPending>>
     /\ (/\ phase = "mounted" /\ phase' = "mounted"
         /\ props'.src # props.src /\ ModeChanged
         /\ props.src # "" \/ backgroundImageRef = NoImage \/ ~canvas)
          => UNCHANGED <<viewportTransform, fitZoom, manualZoom, zoom>>]_vars

C10_Witness ==
  /\ phase = "mounted" /\ backgroundImageRef = NoImage
  /\ canvas /\ manualZoom = Undefined /\ width # 0
  /\ props.scaleToFit /\ ~viewportApplied /\ ~loading /\ inflight = {}

\* the store write of updateViewport, seen from the step that ran it
ZoomWritten ==
  /\ viewportApplied'
  /\ manualZoom' = ManualZoomOr1(manualZoom)
  /\ zoom' = RMul(fitZoom', manualZoom')
  /\ zoom' = viewportTransform'[1]

\* C11: whenever updateViewport runs and a canvas exists, it writes
\* combinedZoom to the store's zoom field, even when no image is attached.
C11_ZoomWrittenWithoutImage ==
  [][/\ (phase = "init" /\ phase' = "mounted" /\ canvas) => ZoomWritten
     /\ (DimensionEffectStep /\ canvas) => ZoomWritten]_vars

\* C11, amended: whenever updateViewport runs with a canvas in the store and an
\* image in the local reference, it writes combinedZoom to the store's zoom
\* field; with a canvas and no image it writes nothing to the store.
C11_ZoomWrittenWithImage ==
  [][/\ (DimensionEffectStep /\ canvas /\ backgroundImageRef # NoImage)
          => ZoomWritten
     /\ \A l \in inflight : ReachedViewport(l) => ZoomWritten
     /\ (DimensionEffectStep /\ canvas /\ backgroundImageRef = NoImage)
          => UNCHANGED <<zoom, manualZoom, fitZoom, viewportApplied>>]_vars

C11_Witness ==
  /\ phase = "mounted" /\ canvas /\ backgroundImageRef # NoImage
  /\ viewportApplied /\ manualZoom = Num(1)
  /\ zoom = fitZoom /\ zoom # Num(1)

\* C12: a load that resolves while the canvas is absent or has zero width or
\* zero height is dropped: the canvas background, the local reference, the
\* viewport transform and the store's zoom fields stay as they were and onLoad
\* is not called; a later change of the canvas dimensions runs the viewport
\* computation only and never attaches that image.
C12_DroppedWithoutSize ==
  [][/\ \A l \in inflight :
          (/\ SettleStep(l) /\ outcome'[l.id] = "resolved"
           /\ ~canvas \/ width = 0 \/ height = 0)
            => UNCHANGED <<backgroundImage, backgroundImageRef, images,
                           viewportTransform, fitZoom, manualZoom, zoom,
                           onLoadCalls, attached>>
     /\ \A i \in ImageIds :
          (outcome[i] = "resolved" /\ i \notin attached)
            => /\ i \notin attached' /\ onLoadCalls'[i] = 0
               /\ backgroundImage' # i /\ backgroundImageRef' # i
     /\ SizeChanged
          => UNCHANGED <<backgroundImage, backgroundImageRef, attached,
                         onLoadCalls, inflight>>]_vars

C12_Witness ==
  \E i \in ImageIds :
    /\ outcome[i] = "resolved" /\ i \notin attached
    /\ phase = "mounted" /\ canvas /\ <<width, height>> = <<600, 600>>
    /\ backgroundImage = NoImage /\ backgroundImageRef = NoImage
    /\ inflight = {} /\ ~loading

SrcEffectStep ==
  \/ phase = "init" /\ phase' = "mounted"
  \/ phase = "mounted" /\ phase' = "mounted" /\ props'.src # props.src

\* C14: every change of src to a non-empty string sets the loading flag and
\* issues exactly one decode request, for that src; with an empty src no
\* request is issued and the loading flag is not written; no other step issues
\* a request.
C14_OneRequestPerSrc ==
  [][/\ (SrcEffectStep /\ props'.src # "")
          => /\ loading'
             /\ nextId' = nextId + 1
             /\ inflight \subseteq inflight'
             /\ Cardinality(inflight' \ inflight) = 1
             /\ \A l \in inflight' \ inflight : l.id = nextId /\ l.src = props'.src
     /\ (SrcEffectStep /\ props'.src = "")
          => UNCHANGED <<loading, inflight, nextId, outcome>>
     /\ ~SrcEffectStep
          => nextId' = nextId /\ inflight' \subseteq inflight]_vars

C14_Witness ==
  /\ phase = "mounted" /\ props.src = ""
  /\ loading /\ nextId = 2
  /\ \E l \in inflight : l.src = "B" /\ l.id \in superseded

\* updateViewport has run in this step with the parameters params, on the
\* image the local reference holds after it
ViewportRecomputed(params) ==
  /\ viewportApplied' /\ renderPending'
  /\ fitZoom' = FitZoom(images'[backgroundImageRef'], width', height', params)
  /\ viewportTransform'[1] = CombinedZoom(fitZoom', ManualZoomOr1(manualZoom))

\* C15: updateViewport runs again on every change of the canvas width or
\* height or of scaleToFit or scaleToCover, and once more after every attach,
\* before onLoad is called: onLoad finds the viewport of the new image.
C15_ViewportRerun ==
  [][/\ (DimensionEffectStep /\ backgroundImageRef # NoImage /\ canvas)
          => ViewportRecomputed(props')
     /\ \A l \in inflight :
          ReachedViewport(l)
            => /\ ViewportRecomputed(l)
               /\ onLoadCalls'[l.id] = onLoadCalls[l.id] + 1
               /\ l.id \in onLoadSaw']_vars

C15_Witness ==
  /\ phase = "mounted" /\ backgroundImageRef # NoImage
  /\ backgroundImageRef \in onLoadSaw
  /\ <<width, height>> = <<100, 1200>>
  /\ props.scaleToCover /\ props.scaleToFit
  /\ fitZoom = Rat(1, 4)

\* C16: on an update render in which the extra visual properties changed, with
\* an image attached every property is applied to it, angle by rotate (the
\* angle is set and the centre of the image stays where it was) and every other
\* key by set, and a canvas render is requested afterwards; with no image
\* attached no image is changed and no render is requested.
C16_OptionsApplied ==
  [][(phase = "mounted" /\ phase' = "mounted" /\ props'.options # props.options)
       => IF backgroundImageRef' # NoImage
          THEN LET old == images[backgroundImageRef]
                   new == images'[backgroundImageRef']
               IN /\ backgroundImageRef' = backgroundImageRef
                  /\ \A k \in DOMAIN props'.options \ {"angle"} :
                       new[k] = props'.options[k]
                  /\ \A k \in DOMAIN new \ DOMAIN props'.options :
                       k \notin {"left", "top"} => new[k] = old[k]
                  /\ "angle" \in DOMAIN props'.options
                       => /\ new.angle = props'.options.angle
                          /\ ImageCentre2(new) = ImageCentre2(old)
                  /\ "angle" \notin DOMAIN props'.options
                       => \A k \in {"left", "top"} \ DOMAIN props'.options :
                            new[k] = old[k]
                  /\ renderPending'
          ELSE /\ images' = images
               /\ renderPending' => renderPending]_vars

C16_Witness ==
  /\ phase = "mounted" /\ backgroundImageRef # NoImage
  /\ props.options = [angle |-> HalfTurn]
  /\ images[backgroundImageRef].angle = HalfTurn
  /\ images[backgroundImageRef].scaleX = 2
  /\ images[backgroundImageRef].left = 770
  /\ images[backgroundImageRef].top = 650
  /\ renderPending

\* C17: the loading flag is true whenever the load of the current src is in
\* flight; when src changes from A to B and A's load settles while B's is in
\* flight, the flag stays true until B's load settles.
C17_LoadingWhileInFlight ==
  (/\ phase = "mounted" /\ props.src # ""
   /\ \E l \in inflight : l.id = Latest /\ l.id \notin superseded)
    => loading

\* C18: whenever no load is in flight and an image is attached, the store's
\* fitZoom is the value computed from the current scaleToFit/scaleToCover
\* props, the current canvas dimensions and the attached image; a change of the
\* scale mode while a load is in flight is not lost when the load resolves.
C18_FitZoomFollowsProps ==
  (/\ phase = "mounted" /\ inflight = {}
   /\ backgroundImageRef # NoImage /\ canvas)
    => FitZoomAsSpecified(fitZoom, images[backgroundImageRef], width, height,
                          props.scaleToFit, props.scaleToCover)

\* C19: whenever the local reference holds an image, canvas.backgroundImage is
\* that same image (nothing but the component writes the canvas background).
C19_RefIsBackground ==
  backgroundImageRef # NoImage => backgroundImage = backgroundImageRef

C19_Witness ==
  /\ backgroundImageRef # NoImage /\ backgroundImage = backgroundImageRef
  /\ backgroundImageRef \in superseded
  /\ \E i \in attached : i # backgroundImageRef

====
